---- MODULE Spec2Model ----
(***************************************************************************)
(* Model of the Civic Atlas coverage dashboard (the Dashboard component    *)
(* with the Mapbox map, src/unnamed/part_001): the pure function           *)
(* calculateBounds, the four asynchronous loads started by the mount       *)
(* effect, and the map and popup event handlers.                           *)
(*                                                                         *)
(* JavaScript numbers are modelled in fixed point: the number x is the     *)
(* integer x * Unit.  Coordinates in the inputs are multiples of 0.001, so *)
(* that the midpoint of two of them is again representable.  Rounding of   *)
(* IEEE doubles is outside the model.                                      *)
(***************************************************************************)
EXTENDS Integers, Sequences, FiniteSets, TLC

VARIABLES
    tableData,        \* useState([])     : rows of sample_data.csv
    pieData,          \* useState(null)   : chart shapes of sample_data_2.csv
    topNumbersData,   \* useState(null)   : first row of top_numbers.csv
    geoJsonData,      \* useState(null)   : the filtered feature collection
    mapView,          \* useState({longitude, latitude, zoom})
    popupInfo,        \* useState(null)
    mapRef,           \* useRef(null)     : TRUE once mapRef.current is set
    files,            \* what each of the four requests will deliver
    pending,          \* the requests of the mount effect not yet settled
    cbArg,            \* argument of the latest call of calculateBounds
    cbRet,            \* its outcome
    calls,            \* history: <<argument, outcome, k>> for the k-th call on an argument
    viewSource,       \* history: what wrote mapView last (init, bounds, move)
    lastPopupEvent,   \* history: the last event that reached a popup handler
    overwroteMove     \* history: the loaded view replaced one the user had moved

vars == <<tableData, pieData, topNumbersData, geoJsonData, mapView, popupInfo,
          mapRef, files, pending, cbArg, cbRet, calls, viewSource,
          lastPopupEvent, overwroteMove>>

dashboardState == <<tableData, pieData, topNumbersData, geoJsonData, mapView,
                    popupInfo>>

-----------------------------------------------------------------------------
(* JavaScript values *)

\* Fixed-point scale: the JavaScript number x is represented by x * Unit.
Unit == 2 * 1000

\* A JavaScript value: t is the result of typeof ("object" is null here),
\* k tells a finite number from NaN and the infinities, n is the fixed-point
\* number (or the sign of an infinity, or a boolean as 0/1), s a string.
Num(n)    == [t |-> "number",    k |-> "fin", n |-> n, s |-> ""]
NaN       == [t |-> "number",    k |-> "nan", n |-> 0, s |-> ""]
PosInf    == [t |-> "number",    k |-> "inf", n |-> 1, s |-> ""]
NegInf    == [t |-> "number",    k |-> "inf", n |-> -1, s |-> ""]
Str(s)    == [t |-> "string",    k |-> "",    n |-> 0, s |-> s]
Bool(b)   == [t |-> "boolean",   k |-> "",    n |-> IF b THEN 1 ELSE 0, s |-> ""]
Null      == [t |-> "object",    k |-> "",    n |-> 0, s |-> ""]
Undefined == [t |-> "undefined", k |-> "",    n |-> 0, s |-> ""]

\* typeof x === 'number'
IsNumber(x) == x.t = "number"

\* isNaN(x), for x a number
IsNaN(x) == x.k = "nan"

\* x >= c and x <= c for a JavaScript number x and a finite constant c
\* (every comparison with NaN is false)
Geq(x, c) == \/ x.k = "fin" /\ x.n >= c
             \/ x.k = "inf" /\ x.n = 1
Leq(x, c) == \/ x.k = "fin" /\ x.n <= c
             \/ x.k = "inf" /\ x.n = -1

\* Math.min / Math.max of an accumulator (finite or infinite) and a finite number
MathMin(a, b) == IF a.k = "inf" THEN (IF a.n = 1 THEN b ELSE a)
                 ELSE IF a.n <= b.n THEN a ELSE b
MathMaxLast(a, b) == b
MathMax(a, b) == IF a.k = "inf" THEN (IF a.n = -1 THEN b ELSE a)
                 ELSE IF a.n >= b.n THEN a ELSE b

\* Truthiness (Boolean(x), x || y, x && y, if (x))
Truthy(x) == CASE x.t = "number"  -> (x.k = "inf") \/ (x.k = "fin" /\ x.n # 0)
               [] x.t = "string"  -> x.s # ""
               [] x.t = "boolean" -> x.n = 1
               [] OTHER           -> FALSE

-----------------------------------------------------------------------------
(* calculateBounds *)

\* A coordinate entry of a ring: an array (elems), or something that is not
\* iterable (null, a number), on which the destructuring throws.
Pair(lng, lat) == [kind |-> "array", elems |-> <<lng, lat>>]
ShortArray(e)  == [kind |-> "array", elems |-> e]
BadCoord(k)    == [kind |-> k, elems |-> <<>>]

\* A ring: an array of coordinate entries, or a value with no forEach.
Ring(items) == [kind |-> "array", items |-> items]
BadRing(k)  == [kind |-> k, items |-> <<>>]

\* geometry: absent, present without coordinates, or with an array of rings.
NoGeometry        == [kind |-> "missing",  coordinates |-> <<>>]
NoCoordinates     == [kind |-> "nocoords", coordinates |-> <<>>]
Geometry(rings)   == [kind |-> "coords",   coordinates |-> rings]

\* const [lng, lat] = coord: the elements, undefined where the array is short
Destructure(coord, i) == IF i <= Len(coord.elems) THEN coord.elems[i] ELSE Undefined

\* The validity test of one pair (lines 74-77)
ValidCoordNoUpperLat(lng, lat) ==
    /\ IsNumber(lng) /\ IsNumber(lat)
    /\ ~IsNaN(lng) /\ ~IsNaN(lat)
    /\ Geq(lng, -180 * Unit) /\ Leq(lng, 180 * Unit)
    /\ Geq(lat, -90 * Unit)

ValidCoordExclusiveBounds(lng, lat) ==
    /\ IsNumber(lng) /\ IsNumber(lat)
    /\ ~IsNaN(lng) /\ ~IsNaN(lat)
    /\ Geq(lng, -180 * Unit + 1) /\ Leq(lng, 180 * Unit - 1)
    /\ Geq(lat, -90 * Unit + 1) /\ Leq(lat, 90 * Unit - 1)

ValidCoord(lng, lat) ==
    /\ IsNumber(lng) /\ IsNumber(lat)
    /\ ~IsNaN(lng) /\ ~IsNaN(lat)
    /\ Geq(lng, -180 * Unit) /\ Leq(lng, 180 * Unit)
    /\ Geq(lat, -90 * Unit) /\ Leq(lat, 90 * Unit)

\* The accumulators kept from the call before
InitialAccShared ==
    IF cbRet.kind = "view"
    THEN [minLat |-> Num(cbRet.latitude), maxLat |-> Num(cbRet.latitude),
          minLng |-> Num(cbRet.longitude), maxLng |-> Num(cbRet.longitude),
          hasValidCoords |-> TRUE, thrown |-> FALSE]
    ELSE [minLat |-> PosInf, maxLat |-> NegInf,
          minLng |-> PosInf, maxLng |-> NegInf,
          hasValidCoords |-> FALSE, thrown |-> FALSE]

\* let minLat = Infinity, maxLat = -Infinity; ... hasValidCoords = false
InitialAcc == [minLat |-> PosInf, maxLat |-> NegInf,
               minLng |-> PosInf, maxLng |-> NegInf,
               hasValidCoords |-> FALSE, thrown |-> FALSE]

\* The body of ring.forEach(coord => ...) for one coordinate entry
VisitCoord(acc, coord) ==
    IF acc.thrown THEN acc
    ELSE IF coord.kind # "array" THEN [acc EXCEPT !.thrown = TRUE]
    ELSE LET lng == Destructure(coord, 1)
             lat == Destructure(coord, 2)
         IN  IF ValidCoord(lng, lat)
             THEN [acc EXCEPT !.minLat = MathMin(acc.minLat, lat),
                              !.maxLat = MathMax(acc.maxLat, lat),
                              !.minLng = MathMin(acc.minLng, lng),
                              !.maxLng = MathMax(acc.maxLng, lng),
                              !.hasValidCoords = TRUE]
             ELSE acc

RECURSIVE VisitCoords(_, _)
VisitCoords(acc, items) ==
    IF items = <<>> THEN acc
    ELSE VisitCoords(VisitCoord(acc, Head(items)), Tail(items))

\* The body of coordinates.forEach(ring => ...) for one ring
VisitRing(acc, ring) ==
    IF acc.thrown THEN acc
    ELSE IF ring.kind # "array" THEN [acc EXCEPT !.thrown = TRUE]
    ELSE VisitCoords(acc, ring.items)

RECURSIVE VisitRings(_, _)
VisitRings(acc, rings) ==
    IF rings = <<>> THEN acc
    ELSE VisitRings(VisitRing(acc, Head(rings)), Tail(rings))

VisitFeatureFresh(acc, feature) ==
    IF acc.thrown THEN acc
    ELSE IF feature.geometry.kind = "coords"
         THEN VisitRings(InitialAcc, feature.geometry.coordinates)
         ELSE acc

\* The body of features.forEach(feature => ...) for one feature
VisitFeature(acc, feature) ==
    IF acc.thrown THEN acc
    ELSE IF feature.geometry.kind = "coords"
         THEN VisitRings(acc, feature.geometry.coordinates)
         ELSE acc

RECURSIVE VisitFeatures(_, _)
VisitFeatures(acc, features) ==
    IF features = <<>> THEN acc
    ELSE VisitFeatures(VisitFeature(acc, Head(features)), Tail(features))

\* Outcomes of a call: null, a view, or a thrown TypeError
View(lng, lat, zoom) == [kind |-> "view", longitude |-> lng, latitude |-> lat,
                         zoom |-> zoom]
NullResult  == [kind |-> "null",  longitude |-> 0, latitude |-> 0, zoom |-> 0]
Thrown      == [kind |-> "throw", longitude |-> 0, latitude |-> 0, zoom |-> 0]
NotCalled   == [kind |-> "none",  longitude |-> 0, latitude |-> 0, zoom |-> 0]

\* { longitude: -96.7970, latitude: 32.9750, zoom: 9 }
DefaultView == View(-(96 * Unit + 1594), 32 * Unit + 1950, 9 * Unit)

\* The zoom ladder (lines 106-115)
ZoomForNonStrict(maxDiff) ==
    IF maxDiff > 3 * Unit THEN 7 * Unit
    ELSE IF maxDiff > 2 * Unit THEN 8 * Unit
    ELSE IF maxDiff >= Unit THEN 9 * Unit
    ELSE IF maxDiff > Unit \div 2 THEN 10 * Unit
    ELSE IF maxDiff > Unit \div 5 THEN 11 * Unit
    ELSE IF maxDiff > Unit \div 10 THEN 12 * Unit
    ELSE IF maxDiff > Unit \div 20 THEN 13 * Unit
    ELSE 14 * Unit

ZoomForExtraRung(maxDiff) ==
    IF maxDiff > 5 * Unit THEN 6 * Unit
    ELSE IF maxDiff > 3 * Unit THEN 7 * Unit
    ELSE IF maxDiff > 2 * Unit THEN 8 * Unit
    ELSE IF maxDiff > Unit THEN 9 * Unit
    ELSE IF maxDiff > Unit \div 2 THEN 10 * Unit
    ELSE IF maxDiff > Unit \div 5 THEN 11 * Unit
    ELSE IF maxDiff > Unit \div 10 THEN 12 * Unit
    ELSE IF maxDiff > Unit \div 20 THEN 13 * Unit
    ELSE 14 * Unit

ZoomFor(maxDiff) ==
    IF maxDiff > 3 * Unit THEN 7 * Unit
    ELSE IF maxDiff > 2 * Unit THEN 8 * Unit
    ELSE IF maxDiff > Unit THEN 9 * Unit
    ELSE IF maxDiff > Unit \div 2 THEN 10 * Unit
    ELSE IF maxDiff > Unit \div 5 THEN 11 * Unit
    ELSE IF maxDiff > Unit \div 10 THEN 12 * Unit
    ELSE IF maxDiff > Unit \div 20 THEN 13 * Unit
    ELSE 14 * Unit

\* Math.max(latDiff, lngDiff)
MaxOf(a, b) == IF a >= b THEN a ELSE b

\* The part of calculateBounds after the scan (lines 89-121)
ViewOfAcc(acc) ==
    IF \/ ~acc.hasValidCoords
       \/ acc.minLat = PosInf \/ acc.maxLat = NegInf
       \/ acc.minLng = PosInf \/ acc.maxLng = NegInf
    THEN DefaultView
    ELSE LET centerLat == (acc.minLat.n + acc.maxLat.n) \div 2
             centerLng == (acc.minLng.n + acc.maxLng.n) \div 2
             latDiff   == acc.maxLat.n - acc.minLat.n
             lngDiff   == acc.maxLng.n - acc.minLng.n
         IN  View(centerLng, centerLat, ZoomFor(MaxOf(latDiff, lngDiff)))

EmptyResultFallback == DefaultView

\* if (!features || features.length === 0) return null;
EmptyResult == NullResult

calculateBounds(features) ==
    IF Len(features) = 0 THEN EmptyResult
    ELSE LET acc == VisitFeatures(InitialAcc, features)
         IN  IF acc.thrown THEN Thrown ELSE ViewOfAcc(acc)

-----------------------------------------------------------------------------
(* Features and the inputs of calculateBounds *)

\* properties: absent, or an object with the three attributes the code reads
NoProperties == [present |-> FALSE, last_edited |-> Undefined,
                 CITY_NM |-> Undefined, POP2022 |-> Undefined]
Properties(edited, city, pop) == [present |-> TRUE, last_edited |-> edited,
                                  CITY_NM |-> city, POP2022 |-> pop]

Feature(props, geometry) == [properties |-> props, geometry |-> geometry]

\* A feature as calculateBounds sees it after the last_edited filter
Edited(geometry) ==
    Feature(Properties(Str("2024-05-01"), Str("Plano"), Num(285494 * Unit)), geometry)

\* Degrees and thousandths of a degree, in fixed point
Deg(d, milli) == d * Unit + milli * (Unit \div 1000)

\* Coordinate entries of the nested inputs: two valid pairs, a pair whose
\* latitude is out of range, a pair with NaN, an array that is too short,
\* and an entry that is not an array.
CoordPool ==
    { Pair(Num(Deg(-97, 0)), Num(Deg(33, 0))),
      Pair(Num(Deg(-96, 400)), Num(Deg(33, 600))),
      Pair(Num(Deg(-100, 0)), Num(Deg(95, 0))),
      Pair(NaN, Num(Deg(40, 0))),
      ShortArray(<<Num(Deg(-90, 0))>>),
      BadCoord("null") }

\* Total number of features, rings and coordinate entries of a nested input
MaxSize == 6

\* The shape of a ring of exactly c nodes (the ring and its entries): the
\* number of its entries, or -1 and -2 for a ring that is a number or null
RingShapesOfSize(c) ==
    {c - 1} \cup (IF c = 1 THEN {-1, -2} ELSE {})

\* Sequences of ring shapes of exactly c nodes in all
RingShapeSeqsOfSize[c \in 0..MaxSize] ==
    IF c = 0 THEN {<<>>}
    ELSE UNION { { <<r>> \o rest : r \in RingShapesOfSize(j),
                                   rest \in RingShapeSeqsOfSize[c - j] } : j \in 1..c }

\* Shapes of features of exactly c nodes (the feature, its rings, their entries)
FeatureShapesOfSize(c) ==
    { [kind |-> "coords", rings |-> rings] : rings \in RingShapeSeqsOfSize[c - 1] }
    \cup (IF c = 1 THEN { [kind |-> "missing", rings |-> <<>>],
                          [kind |-> "nocoords", rings |-> <<>>] } ELSE {})

\* Sequences of feature shapes of exactly c nodes in all
FeatureShapeSeqsOfSize[c \in 0..MaxSize] ==
    IF c = 0 THEN {<<>>}
    ELSE UNION { { <<f>> \o rest : f \in FeatureShapesOfSize(j),
                                   rest \in FeatureShapeSeqsOfSize[c - j] } : j \in 1..c }

Shapes == UNION { FeatureShapeSeqsOfSize[c] : c \in 0..MaxSize }

\* Number of coordinate entries of the first r rings of a feature shape, and
\* of the first i features of a shape
EntriesOfRing(n) == IF n > 0 THEN n ELSE 0

RECURSIVE EntriesInRings(_, _)
EntriesInRings(rings, r) ==
    IF r = 0 THEN 0 ELSE EntriesInRings(rings, r - 1) + EntriesOfRing(rings[r])

RECURSIVE EntriesInFeatures(_, _)
EntriesInFeatures(shape, i) ==
    IF i = 0 THEN 0
    ELSE EntriesInFeatures(shape, i - 1)
         + EntriesInRings(shape[i].rings, Len(shape[i].rings))

Slots(shape) == EntriesInFeatures(shape, Len(shape))

\* The input of a shape whose coordinate entries are, in order, entries
Fill(shape, entries) ==
    [i \in 1..Len(shape) |->
        CASE shape[i].kind = "missing"  -> Edited(NoGeometry)
          [] shape[i].kind = "nocoords" -> Edited(NoCoordinates)
          [] OTHER ->
               Edited(Geometry(
                 [r \in 1..Len(shape[i].rings) |->
                    CASE shape[i].rings[r] = -1 -> BadRing("number")
                      [] shape[i].rings[r] = -2 -> BadRing("null")
                      [] OTHER ->
                           Ring([k \in 1..shape[i].rings[r] |->
                                   entries[EntriesInFeatures(shape, i - 1)
                                           + EntriesInRings(shape[i].rings, r - 1)
                                           + k]])]))]

\* Spreads at, just above and between the rungs of the zoom ladder, in
\* thousandths of a degree
LadderOffsets == {0, 50, 51, 100, 101, 200, 201, 500, 501, 600,
                  1000, 1001, 1500, 2000, 2001, 3000, 3001}

\* Coordinate entries of the flat inputs (one feature, one ring, at most two
\* entries): the ladder on the latitude axis, three longitudes, the inclusive
\* range bounds, the origin, and every kind of invalid or malformed entry.
FlatPool ==
    { Pair(Num(Deg(-97, 0) + Deg(0, e)), Num(Deg(33, 0) + Deg(0, d))) :
         e \in {0, 600, 3001}, d \in LadderOffsets }
    \cup { Pair(Num(Deg(180, 0)), Num(Deg(90, 0))),
           Pair(Num(Deg(-180, 0)), Num(Deg(-90, 0))),
           Pair(Num(0), Num(0)),
           Pair(Num(Deg(180, 1)), Num(Deg(10, 0))),
           Pair(Num(Deg(-180, 0) - Deg(0, 1)), Num(Deg(10, 0))),
           Pair(Num(Deg(20, 0)), Num(Deg(90, 1))),
           Pair(Num(Deg(20, 0)), Num(Deg(-90, 0) - Deg(0, 1))),
           Pair(NaN, Num(Deg(40, 0))),
           Pair(Num(Deg(50, 0)), NaN),
           Pair(PosInf, Num(Deg(40, 0))),
           Pair(Num(Deg(50, 0)), NegInf),
           Pair(Str("-97.0"), Num(Deg(40, 0))),
           Pair(Num(Deg(50, 0)), Null),
           Pair(Bool(TRUE), Bool(TRUE)),
           ShortArray(<<>>),
           ShortArray(<<Num(Deg(-90, 0))>>),
           ShortArray(<<Num(Deg(-97, 0)), Num(Deg(33, 0)), Num(Deg(120, 0))>>),
           BadCoord("null"),
           BadCoord("number") }

FlatInputs ==
    { <<Edited(Geometry(<<Ring(items)>>))>> :
         items \in UNION { [1..k -> FlatPool] : k \in 1..2 } }


-----------------------------------------------------------------------------
(* The CSV completion callbacks *)

\* null is the empty sequence and a value x the sequence <<x>>, for the state
\* slots that start as null
NullState == <<>>
Some(x)   == <<x>>

\* A string that starts with a number, such as "85%": parseFloat reads n
StrNum(s, n) == [t |-> "string", k |-> "prefix", n |-> n, s |-> s]

\* Strings that dynamicTyping leaves as strings and that still convert as a
\* whole: '+5' (Number and parseFloat give 5) and 'Infinity'
StrWhole(s, n) == [t |-> "string", k |-> "whole", n |-> n, s |-> s]
StrInfinity    == [t |-> "string", k |-> "infinity", n |-> 1, s |-> "Infinity"]

GreaterOrEqualZero(x) ==
    CASE x.t = "number"  -> (x.k = "fin" /\ x.n >= 0) \/ (x.k = "inf" /\ x.n = 1)
      [] x.t = "boolean" -> TRUE
      [] x.t = "string"  -> (x.k = "whole" /\ x.n >= 0) \/ x.k = "infinity"
      [] x.t = "object"  -> TRUE
      [] OTHER           -> FALSE

\* x > 0 with JavaScript's conversion of x to a number: true becomes 1, null
\* and false 0, undefined NaN; a string becomes the number it spells as a
\* whole, and NaN when it spells none ('n/a', '85%')
GreaterThanZero(x) ==
    CASE x.t = "number"  -> (x.k = "fin" /\ x.n > 0) \/ (x.k = "inf" /\ x.n = 1)
      [] x.t = "boolean" -> x.n = 1
      [] x.t = "string"  -> (x.k = "whole" /\ x.n > 0) \/ x.k = "infinity"
      [] OTHER           -> FALSE

\* parseFloat(x): a number stays what it is, a string gives the number its
\* longest numeric prefix spells, everything else NaN
ParseFloat(x) ==
    CASE x.t = "number"                               -> x
      [] x.t = "string" /\ x.k \in {"prefix", "whole"} -> Num(x.n)
      [] x.t = "string" /\ x.k = "infinity"           -> PosInf
      [] OTHER                                        -> NaN

\* x * 100 and 1 - x on JavaScript numbers
Times100(x) == IF x.k = "fin" THEN Num(x.n * 100) ELSE x
OneMinus(x) == CASE x.k = "fin" -> Num(Unit - x.n)
                 [] x.k = "inf" -> [x EXCEPT !.n = -x.n]
                 [] OTHER       -> x

QualityNames == <<"Very Good", "Good", "Normal", "Poor">>
completenessMetrics == <<"Descriptions", "Locations", "Contacts",
                         "Links to Extra Documents">>
SummaryColumns == {QualityNames[i] : i \in 1..4}
                  \cup {completenessMetrics[i] : i \in 1..4}

\* lines 163-168: [...].filter(item => item.value > 0)
RECURSIVE FilterPositive(_)
FilterPositive(items) ==
    IF items = <<>> THEN <<>>
    ELSE (IF GreaterThanZero(Head(items).value) THEN <<Head(items)>> ELSE <<>>)
         \o FilterPositive(Tail(items))

qualityData(summaryData) ==
    FilterPositive([i \in 1..4 |-> [name  |-> QualityNames[i],
                                    value |-> summaryData[QualityNames[i]]]])

ChartOfNoFromPercent(summaryData, metric) ==
    LET yesPercentage == ParseFloat(summaryData[metric])
    IN  IF IsNaN(yesPercentage) THEN <<>>
        ELSE << [title |-> metric,
                 data  |-> << [name |-> "Yes", value |-> Times100(yesPercentage)],
                              [name |-> "No",
                               value |-> OneMinus(Times100(yesPercentage))] >>] >>

\* lines 174-187: one chart per metric, null (the empty sequence) when the
\* value does not parse; the nulls are filtered out
ChartOf(summaryData, metric) ==
    LET yesPercentage == ParseFloat(summaryData[metric])
    IN  IF IsNaN(yesPercentage) THEN <<>>
        ELSE << [title |-> metric,
                 data  |-> << [name |-> "Yes", value |-> Times100(yesPercentage)],
                              [name |-> "No",
                               value |-> Times100(OneMinus(yesPercentage))] >>] >>

completenessCharts(summaryData) ==
    ChartOf(summaryData, completenessMetrics[1])
    \o ChartOf(summaryData, completenessMetrics[2])
    \o ChartOf(summaryData, completenessMetrics[3])
    \o ChartOf(summaryData, completenessMetrics[4])

\* line 189
PieDataOf(summaryData) ==
    [quality |-> qualityData(summaryData),
     completenessCharts |-> completenessCharts(summaryData)]

-----------------------------------------------------------------------------
(* What the four requests can deliver *)

\* A Papa.parse download: the complete callback runs with result.data, or
\* the download fails and no callback runs (no error callback is given)
CsvOk(data) == [ok |-> TRUE, data |-> data]
CsvFailed   == [ok |-> FALSE, data |-> <<>>]

TableRow(city, score) == [City |-> Str(city), TotalScore |-> Num(score * Unit)]
TableFiles == { CsvFailed, CsvOk(<<>>),
                CsvOk(<<TableRow("Plano", 87), TableRow("Frisco", 92)>>) }

TopRow(cities, cases, contacts) ==
    [CitiesCovered |-> Num(cities * Unit), TotalCases |-> Num(cases * Unit),
     IdentifiedContacts |-> Num(contacts * Unit)]
TopFiles == { CsvFailed, CsvOk(<<>>), CsvOk(<<TopRow(12, 340, 55), TopRow(1, 2, 3)>>) }

SummaryRow(vg, g, n, p, d, l, c, x) ==
    [col \in SummaryColumns |->
        CASE col = "Very Good" -> vg [] col = "Good" -> g
          [] col = "Normal" -> n     [] col = "Poor" -> p
          [] col = "Descriptions" -> d [] col = "Locations" -> l
          [] col = "Contacts" -> c   [] OTHER -> x]

Percent(pc) == Num(pc * (Unit \div 100))

SummaryFiles ==
    { CsvFailed, CsvOk(<<>>),
      CsvOk(<<SummaryRow(Num(40 * Unit), Num(25 * Unit), Num(0), Num(-3 * Unit),
                         Percent(85), Percent(100), Str("n/a"), Undefined)>>),
      CsvOk(<<SummaryRow(Bool(TRUE), Null, Str("many"), Num(7 * Unit),
                         StrNum("85%", 85 * Unit), Null, Percent(0), Bool(TRUE))>>) }

\* The fetch of the GeoJSON: rejected, a body that is not JSON, a JSON value
\* with no features array, or a feature collection
GeoRejected     == [kind |-> "reject",     features |-> <<>>]
GeoNotJson      == [kind |-> "notjson",    features |-> <<>>]
GeoNoFeatures   == [kind |-> "nofeatures", features |-> <<>>]
GeoOk(features) == [kind |-> "ok",         features |-> features]

City(name, pop, edited, geometry) ==
    Feature(Properties(edited, name, pop), geometry)

Square(lng, lat, size) ==
    Geometry(<< Ring(<< Pair(Num(lng), Num(lat)), Pair(Num(lng + size), Num(lat)),
                        Pair(Num(lng + size), Num(lat + size)),
                        Pair(Num(lng), Num(lat)) >>) >>)

Plano  == City(Str("Plano"), Num(285494 * Unit), Str("2024-05-01"),
               Square(Deg(-96, -800), Deg(33, 0), Deg(0, 120)))
Frisco == City(Str("Frisco"), Num(0), Str("2024-06-11"),
               Square(Deg(-96, -900), Deg(33, 100), Deg(0, 150)))
Allen  == City(Undefined, Undefined, Num(20240 * Unit),
               Square(Deg(-1, 0), Deg(-1, 0), Deg(2, 0)))
Wylie  == City(Str("Wylie"), Num(57526 * Unit), Null,
               Square(Deg(-90, 0), Deg(40, 0), Deg(5, 0)))
Sachse == City(Str("Sachse"), Num(27103 * Unit), Str(""),
               Square(Deg(10, 0), Deg(10, 0), Deg(1, 0)))
Ghost  == Feature(NoProperties, Square(Deg(100, 0), Deg(-40, 0), Deg(1, 0)))
Point  == City(Str("Point"), Num(1 * Unit), Str("2024-01-01"),
               Geometry(<<BadRing("number"), BadRing("number")>>))
OffMap == City(Str("OffMap"), Num(2 * Unit), Str("2024-01-02"),
               Geometry(<<Ring(<<Pair(Num(Deg(-97, 0)), Num(Deg(95, 0)))>>)>>))
Bare   == City(Str("Bare"), Num(3 * Unit), Str("2024-01-03"), NoGeometry)

GeoFiles ==
    { GeoRejected, GeoNotJson, GeoNoFeatures,
      GeoOk(<<>>),
      GeoOk(<<Plano, Wylie, Frisco>>),
      GeoOk(<<Ghost, Allen, Sachse>>),
      GeoOk(<<Wylie, Sachse, Ghost>>),
      GeoOk(<<Plano, Point>>),
      GeoOk(<<OffMap, Bare>>),
      GeoOk(<<Allen, Plano>>) }

-----------------------------------------------------------------------------
(* The Dashboard: initial state *)

\* useState({ longitude: -96.7970, latitude: 32.9750, zoom: 9 })
InitialMapView == View(-(96 * Unit + 1594), 32 * Unit + 1950, 9 * Unit)

Loaders == {"sample_data", "top_numbers", "sample_data_2", "geojson"}

InitialState ==
    /\ tableData = <<>>
    /\ pieData = NullState
    /\ topNumbersData = NullState
    /\ geoJsonData = NullState
    /\ mapView = InitialMapView
    /\ popupInfo = NullState
    /\ mapRef = FALSE
    /\ viewSource = "init"
    /\ lastPopupEvent = "none"
    /\ overwroteMove = FALSE

\* After the first render and the mount effect: the four requests are out
Init ==
    /\ InitialState
    /\ files \in [sample_data : TableFiles, top_numbers : TopFiles,
                  sample_data_2 : SummaryFiles, geojson : GeoFiles]
    /\ pending = Loaders
    /\ cbArg = <<>>
    /\ cbRet = NotCalled
    /\ calls = {}

-----------------------------------------------------------------------------
(* The Dashboard: completions of the four requests *)

\* complete: (result) => { setTableData(result.data); }
CompleteSampleData ==
    /\ "sample_data" \in pending
    /\ files.sample_data.ok
    /\ tableData' = files.sample_data.data
    /\ pending' = pending \ {"sample_data"}
    /\ UNCHANGED <<pieData, topNumbersData, geoJsonData, mapView, popupInfo,
                   mapRef, files, cbArg, cbRet, calls, viewSource,
                   lastPopupEvent, overwroteMove>>

CompleteTopNumbersAfterTable ==
    /\ "top_numbers" \in pending
    /\ files.top_numbers.ok
    /\ topNumbersData' = IF Len(files.top_numbers.data) > 0 /\ Len(tableData) > 0
                         THEN Some(files.top_numbers.data[1])
                         ELSE topNumbersData
    /\ pending' = pending \ {"top_numbers"}
    /\ UNCHANGED <<tableData, pieData, geoJsonData, mapView, popupInfo,
                   mapRef, files, cbArg, cbRet, calls, viewSource,
                   lastPopupEvent, overwroteMove>>

\* complete: (result) => { if (result.data.length > 0) setTopNumbersData(result.data[0]); }
CompleteTopNumbers ==
    /\ "top_numbers" \in pending
    /\ files.top_numbers.ok
    /\ topNumbersData' = IF Len(files.top_numbers.data) > 0
                         THEN Some(files.top_numbers.data[1])
                         ELSE topNumbersData
    /\ pending' = pending \ {"top_numbers"}
    /\ UNCHANGED <<tableData, pieData, geoJsonData, mapView, popupInfo,
                   mapRef, files, cbArg, cbRet, calls, viewSource,
                   lastPopupEvent, overwroteMove>>

\* complete: (result) => { if (result.data.length > 0) { ... setPieData(...) } }
CompleteSampleData2 ==
    /\ "sample_data_2" \in pending
    /\ files.sample_data_2.ok
    /\ pieData' = IF Len(files.sample_data_2.data) > 0
                  THEN Some(PieDataOf(files.sample_data_2.data[1]))
                  ELSE pieData
    /\ pending' = pending \ {"sample_data_2"}
    /\ UNCHANGED <<tableData, topNumbersData, geoJsonData, mapView, popupInfo,
                   mapRef, files, cbArg, cbRet, calls, viewSource,
                   lastPopupEvent, overwroteMove>>

\* A download that fails: Papa.parse is given no error callback, complete
\* never runs, and nothing issues the request again
CsvDownloadFails(name) ==
    /\ name \in pending \ {"geojson"}
    /\ ~files[name].ok
    /\ pending' = pending \ {name}
    /\ UNCHANGED <<tableData, pieData, topNumbersData, geoJsonData, mapView,
                   popupInfo, mapRef, files, cbArg, cbRet, calls, viewSource,
                   lastPopupEvent, overwroteMove>>

\* History of the calls of calculateBounds
CallsOn(features) == Cardinality({c \in calls : c[1] = features})
RecordCall(features, outcome) ==
    calls \cup {<<features, outcome, CallsOn(features) + 1>>}

RECURSIVE FilterEditedAnyProperties(_)
FilterEditedAnyProperties(features) ==
    IF features = <<>> THEN <<>>
    ELSE (IF Head(features).properties.present
          THEN <<Head(features)>> ELSE <<>>)
         \o FilterEditedAnyProperties(Tail(features))

\* data.features.filter(feature => feature.properties && feature.properties.last_edited)
RECURSIVE FilterEdited(_)
FilterEdited(features) ==
    IF features = <<>> THEN <<>>
    ELSE (IF Head(features).properties.present
             /\ Truthy(Head(features).properties.last_edited)
          THEN <<Head(features)>> ELSE <<>>)
         \o FilterEdited(Tail(features))

\* The rejected fetch, response.json() rejecting, or data.features being
\* undefined: control reaches .catch, which only logs
GeoJsonFails ==
    /\ "geojson" \in pending
    /\ files.geojson.kind # "ok"
    /\ pending' = pending \ {"geojson"}
    /\ UNCHANGED <<tableData, pieData, topNumbersData, geoJsonData, mapView,
                   popupInfo, mapRef, files, cbArg, cbRet, calls, viewSource,
                   lastPopupEvent, overwroteMove>>

GeoJsonLoadedSetsDataFirst ==
    /\ "geojson" \in pending
    /\ files.geojson.kind = "ok"
    /\ LET filtered == FilterEdited(files.geojson.features)
           computed == calculateBounds(filtered)
       IN  /\ cbArg' = filtered
           /\ cbRet' = computed
           /\ calls' = RecordCall(filtered, computed)
           /\ geoJsonData' = Some([features |-> filtered])
           /\ IF computed.kind = "view"
              THEN /\ mapView' = computed
                   /\ viewSource' = "bounds"
                   /\ overwroteMove' = (viewSource = "move")
              ELSE UNCHANGED <<mapView, viewSource, overwroteMove>>
    /\ pending' = pending \ {"geojson"}
    /\ UNCHANGED <<tableData, pieData, topNumbersData, popupInfo, mapRef, files,
                   lastPopupEvent>>

GeoJsonLoadedSkipsEmpty ==
    /\ "geojson" \in pending
    /\ files.geojson.kind = "ok"
    /\ LET filtered == FilterEdited(files.geojson.features)
           computed == calculateBounds(filtered)
       IN  /\ cbArg' = filtered
           /\ cbRet' = computed
           /\ calls' = RecordCall(filtered, computed)
           /\ IF computed.kind = "view"
              THEN /\ mapView' = computed
                   /\ viewSource' = "bounds"
                   /\ overwroteMove' = (viewSource = "move")
                   /\ geoJsonData' = Some([features |-> filtered])
              ELSE UNCHANGED <<mapView, viewSource, overwroteMove, geoJsonData>>
    /\ pending' = pending \ {"geojson"}
    /\ UNCHANGED <<tableData, pieData, topNumbersData, popupInfo, mapRef, files,
                   lastPopupEvent>>

GeoJsonLoadedKeepsMovedView ==
    /\ "geojson" \in pending
    /\ files.geojson.kind = "ok"
    /\ LET filtered == FilterEdited(files.geojson.features)
           computed == calculateBounds(filtered)
       IN  /\ cbArg' = filtered
           /\ cbRet' = computed
           /\ calls' = RecordCall(filtered, computed)
           /\ IF computed.kind = "throw"
              THEN UNCHANGED <<mapView, viewSource, overwroteMove, geoJsonData>>
              ELSE /\ IF computed.kind = "view" /\ viewSource # "move"
                      THEN /\ mapView' = computed
                           /\ viewSource' = "bounds"
                           /\ overwroteMove' = FALSE
                      ELSE UNCHANGED <<mapView, viewSource, overwroteMove>>
                   /\ geoJsonData' = Some([features |-> filtered])
    /\ pending' = pending \ {"geojson"}
    /\ UNCHANGED <<tableData, pieData, topNumbersData, popupInfo, mapRef, files,
                   lastPopupEvent>>

\* .then(data => { ... }) of the fetch, lines 197-218; a TypeError thrown by
\* calculateBounds skips both setters and lands in .catch
GeoJsonLoaded ==
    /\ "geojson" \in pending
    /\ files.geojson.kind = "ok"
    /\ LET filtered == FilterEdited(files.geojson.features)
           computed == calculateBounds(filtered)
       IN  /\ cbArg' = filtered
           /\ cbRet' = computed
           /\ calls' = RecordCall(filtered, computed)
           /\ IF computed.kind = "throw"
              THEN UNCHANGED <<mapView, viewSource, overwroteMove, geoJsonData>>
              ELSE /\ IF computed.kind = "view"
                      THEN /\ mapView' = computed
                           /\ viewSource' = "bounds"
                           /\ overwroteMove' = (viewSource = "move")
                      ELSE UNCHANGED <<mapView, viewSource, overwroteMove>>
                   /\ geoJsonData' = Some([features |-> filtered])
    /\ pending' = pending \ {"geojson"}
    /\ UNCHANGED <<tableData, pieData, topNumbersData, popupInfo, mapRef, files,
                   lastPopupEvent>>

-----------------------------------------------------------------------------
(* The Dashboard: the map and the popup *)

\* The Map component has mounted and set mapRef.current
MapMounted ==
    /\ ~mapRef
    /\ mapRef' = TRUE
    /\ UNCHANGED <<tableData, pieData, topNumbersData, geoJsonData, mapView,
                   popupInfo, files, pending, cbArg, cbRet, calls, viewSource,
                   lastPopupEvent, overwroteMove>>

\* x || fallback, for x a number of mapView: 0 is falsy
NumberOr(x, fallback) == IF x # 0 THEN x ELSE fallback

\* The viewport props of the Map, lines 261-263:
\* longitude={mapView.longitude || -96.7970}, latitude={mapView.latitude ||
\* 32.9750}, zoom={mapView.zoom || 9}
MapProps ==
    [longitude |-> NumberOr(mapView.longitude, -(96 * Unit + 1594)),
     latitude  |-> NumberOr(mapView.latitude, 32 * Unit + 1950),
     zoom      |-> NumberOr(mapView.zoom, 9 * Unit)]

\* The view states a move of the map can report
MoveViewStates ==
    { View(0, 0, 0),
      View(Deg(-97, 0), Deg(33, 0), 12 * Unit),
      View(Deg(2, 350), Deg(48, 850), 5 * Unit + Unit \div 2) }

\* onMove={evt => setMapView(evt.viewState)}
OnMove(viewState) ==
    /\ mapView' = viewState
    /\ viewSource' = "move"
    /\ UNCHANGED <<tableData, pieData, topNumbersData, geoJsonData, popupInfo,
                   mapRef, files, pending, cbArg, cbRet, calls,
                   lastPopupEvent, overwroteMove>>

\* event.lngLat of a click
ClickLngLats == { [lng |-> Deg(-96, -750), lat |-> Deg(33, 50)],
                  [lng |-> 0, lat |-> 0] }

\* x || y
Or(x, y) == IF Truthy(x) THEN x ELSE y

\* The features the 'coverage-areas' layer shows: those of geoJsonData
RenderedFeatures == IF geoJsonData = NullState THEN <<>>
                    ELSE geoJsonData[1].features

MapClickKeepsPopupOnMiss(lngLat, hit) ==
    /\ hit \in 0..Len(RenderedFeatures)
    /\ IF mapRef /\ hit > 0 /\ RenderedFeatures[hit].properties.present
       THEN popupInfo' =
              Some([longitude  |-> lngLat.lng,
                    latitude   |-> lngLat.lat,
                    city       |-> Or(RenderedFeatures[hit].properties.CITY_NM,
                                      Str("Unknown City")),
                    population |-> Or(RenderedFeatures[hit].properties.POP2022,
                                      Str("N/A"))])
       ELSE UNCHANGED popupInfo
    /\ lastPopupEvent' = IF hit > 0 THEN "feature" ELSE "miss"
    /\ UNCHANGED <<tableData, pieData, topNumbersData, geoJsonData, mapView,
                   mapRef, files, pending, cbArg, cbRet, calls, viewSource,
                   overwroteMove>>

\* onClick of the Map, lines 269-299; hit is the index of the rendered feature
\* under the click, 0 when queryRenderedFeatures returns none
MapClick(lngLat, hit) ==
    /\ hit \in 0..Len(RenderedFeatures)
    /\ IF mapRef
       THEN IF hit > 0 /\ RenderedFeatures[hit].properties.present
            THEN popupInfo' =
                   Some([longitude  |-> lngLat.lng,
                         latitude   |-> lngLat.lat,
                         city       |-> Or(RenderedFeatures[hit].properties.CITY_NM,
                                           Str("Unknown City")),
                         population |-> Or(RenderedFeatures[hit].properties.POP2022,
                                           Str("N/A"))])
            ELSE popupInfo' = NullState
       ELSE UNCHANGED popupInfo
    /\ lastPopupEvent' = IF hit > 0 THEN "feature" ELSE "miss"
    /\ UNCHANGED <<tableData, pieData, topNumbersData, geoJsonData, mapView,
                   mapRef, files, pending, cbArg, cbRet, calls, viewSource,
                   overwroteMove>>

\* onClick of the map container, lines 252-257: a click whose target is the
\* container itself clears the popup, one that bubbled from a child does not
ContainerClick(targetIsContainer) ==
    /\ popupInfo' = IF targetIsContainer THEN NullState ELSE popupInfo
    /\ lastPopupEvent' = IF targetIsContainer THEN "container" ELSE lastPopupEvent
    /\ UNCHANGED <<tableData, pieData, topNumbersData, geoJsonData, mapView,
                   mapRef, files, pending, cbArg, cbRet, calls, viewSource,
                   overwroteMove>>

\* onClose of the Popup, which is rendered only while popupInfo is set
PopupClose ==
    /\ popupInfo # NullState
    /\ popupInfo' = NullState
    /\ lastPopupEvent' = "close"
    /\ UNCHANGED <<tableData, pieData, topNumbersData, geoJsonData, mapView,
                   mapRef, files, pending, cbArg, cbRet, calls, viewSource,
                   overwroteMove>>

Next ==
    \/ CompleteSampleData
    \/ CompleteTopNumbers
    \/ CompleteSampleData2
    \/ \E name \in Loaders : CsvDownloadFails(name)
    \/ GeoJsonFails
    \/ GeoJsonLoaded
    \/ MapMounted
    \/ \E viewState \in MoveViewStates : OnMove(viewState)
    \/ \E lngLat \in ClickLngLats, hit \in 0..3 : MapClick(lngLat, hit)
    \/ \E targetIsContainer \in BOOLEAN : ContainerClick(targetIsContainer)
    \/ PopupClose

Spec == Init /\ [][Next]_vars

-----------------------------------------------------------------------------
(* calculateBounds on its own *)

\* One call of calculateBounds; it reads its argument and writes no state
CalculateBoundsOn(features) ==
    /\ cbArg' = features
    /\ cbRet' = calculateBounds(features)
    /\ calls' = RecordCall(features, calculateBounds(features))
    /\ UNCHANGED <<tableData, pieData, topNumbersData, geoJsonData, mapView,
                   popupInfo, mapRef, files, pending, viewSource,
                   lastPopupEvent, overwroteMove>>

NoFiles == [sample_data |-> CsvFailed, top_numbers |-> CsvFailed,
            sample_data_2 |-> CsvFailed, geojson |-> GeoRejected]

\* The argument is drawn from the inputs and the function is applied to it
InitBounds ==
    /\ InitialState
    /\ files = NoFiles
    /\ pending = {}
    /\ \/ \E shape \in Shapes : \E entries \in [1..Slots(shape) -> CoordPool] :
             cbArg = Fill(shape, entries)
       \/ cbArg \in FlatInputs
    /\ cbRet = NotCalled
    /\ calls = {}

CalculateBoundsCall ==
    /\ cbRet = NotCalled
    /\ CalculateBoundsOn(cbArg)

NextBounds == CalculateBoundsCall

SpecBounds == InitBounds /\ [][NextBounds]_vars

-----------------------------------------------------------------------------
(* What the claims about calculateBounds speak of, stated on the input as a *)
(* set of coordinate entries rather than by the scan                        *)

RingsIn(feature) ==
    IF feature.geometry.kind = "coords"
    THEN { feature.geometry.coordinates[r] :
              r \in 1..Len(feature.geometry.coordinates) }
    ELSE {}

EntriesOf(features) ==
    UNION { UNION { { ring.items[c] : c \in 1..Len(ring.items) } :
                       ring \in RingsIn(features[i]) } : i \in 1..Len(features) }

\* Every ring is an array and every coordinate entry is an array
WellFormed(features) ==
    /\ \A i \in 1..Len(features) : \A ring \in RingsIn(features[i]) :
          ring.kind = "array"
    /\ \A e \in EntriesOf(features) : e.kind = "array"

FiniteNumber(x) == x.t = "number" /\ x.k = "fin"

\* A valid pair: both components finite numbers, longitude in [-180, 180],
\* latitude in [-90, 90]
IsValidPair(e) ==
    /\ e.kind = "array" /\ Len(e.elems) >= 2
    /\ FiniteNumber(e.elems[1]) /\ FiniteNumber(e.elems[2])
    /\ e.elems[1].n \in (-180 * Unit)..(180 * Unit)
    /\ e.elems[2].n \in (-90 * Unit)..(90 * Unit)

ValidPairs(features) == { e \in EntriesOf(features) : IsValidPair(e) }
Lngs(features) == { e.elems[1].n : e \in ValidPairs(features) }
Lats(features) == { e.elems[2].n : e \in ValidPairs(features) }

SetMin(S) == CHOOSE x \in S : \A y \in S : x <= y
SetMax(S) == CHOOSE x \in S : \A y \in S : x >= y
Span(S)   == SetMax(S) - SetMin(S)

Spread(features) ==
    IF Span(Lats(features)) >= Span(Lngs(features))
    THEN Span(Lats(features)) ELSE Span(Lngs(features))

\* The ladder as a table: thresholds in descending order with their zooms
Ladder == << <<3 * Unit, 7>>, <<2 * Unit, 8>>, <<Unit, 9>>, <<Unit \div 2, 10>>,
             <<Unit \div 5, 11>>, <<Unit \div 10, 12>>, <<Unit \div 20, 13>> >>

LadderZoom(spread) ==
    IF \E i \in 1..Len(Ladder) : spread > Ladder[i][1]
    THEN LET first == CHOOSE i \in 1..Len(Ladder) :
                         /\ spread > Ladder[i][1]
                         /\ \A j \in 1..(i - 1) : ~(spread > Ladder[j][1])
         IN  Ladder[first][2] * Unit
    ELSE 14 * Unit

Called   == cbRet.kind # "none"
Returned == cbRet.kind \in {"view", "null"}

\* The input with every array entry that is not a valid pair taken out
RemoveInvalidFromRing(ring) ==
    IF ring.kind # "array" THEN ring
    ELSE Ring(SelectSeq(ring.items,
                        LAMBDA e : e.kind # "array" \/ IsValidPair(e)))

RemoveInvalid(features) ==
    [i \in 1..Len(features) |->
        IF features[i].geometry.kind # "coords" THEN features[i]
        ELSE [features[i] EXCEPT !.geometry.coordinates =
                 [r \in 1..Len(features[i].geometry.coordinates) |->
                     RemoveInvalidFromRing(features[i].geometry.coordinates[r])]]]

\* The input that holds the entry e and nothing else
Single(e) == <<Edited(Geometry(<<Ring(<<e>>)>>))>>

-----------------------------------------------------------------------------
(* Claims about calculateBounds, checked under SpecBounds *)

C2_NeverThrows == cbRet.kind # "throw"

\* C3: for a non-empty feature sequence (rings of coordinate entries, as the
\* Feature type has them) in which no pair is valid, calculateBounds returns
\* the fixed fallback.
C3_AllInvalidReturnsFallback ==
    (Called /\ cbArg # <<>> /\ WellFormed(cbArg) /\ ValidPairs(cbArg) = {})
        => cbRet = DefaultView

C3_Witness ==
    /\ Called /\ WellFormed(cbArg) /\ ValidPairs(cbArg) = {}
    /\ \E e \in EntriesOf(cbArg) :
          /\ Len(e.elems) = 2 /\ FiniteNumber(e.elems[1]) /\ FiniteNumber(e.elems[2])
          /\ e.elems[2].n > 90 * Unit
    /\ \E e \in EntriesOf(cbArg) : Len(e.elems) = 2 /\ e.elems[1].k = "nan"
    /\ cbRet = DefaultView

\* C4: when at least one pair is valid, the zoom returned is given by the
\* spread through the descending ladder with strict greater-than; a spread
\* equal to a threshold takes the next lower rung (1 gives 10, 0.6 gives 10,
\* 1.5 gives 9, 0 gives 14).
C4_ZoomLadder ==
    (Returned /\ ValidPairs(cbArg) # {}) =>
        /\ cbRet.kind = "view"
        /\ cbRet.zoom = LadderZoom(Spread(cbArg))
        /\ cbRet.zoom \in {z * Unit : z \in 7..14}
        /\ Spread(cbArg) = Unit => cbRet.zoom = 10 * Unit
        /\ Spread(cbArg) = Deg(0, 600) => cbRet.zoom = 10 * Unit
        /\ Spread(cbArg) = Deg(1, 500) => cbRet.zoom = 9 * Unit
        /\ Spread(cbArg) = 0 => cbRet.zoom = 14 * Unit
        /\ \A i \in 1..Len(Ladder) :
              Spread(cbArg) = Ladder[i][1] => cbRet.zoom = (Ladder[i][2] + 1) * Unit

C4_Witness ==
    /\ Returned /\ Cardinality(ValidPairs(cbArg)) = 2
    /\ Spread(cbArg) = Unit
    /\ cbRet.zoom = 10 * Unit

\* C5: when at least one pair is valid, the center returned is, per axis, the
\* midpoint of the minimum and maximum of that axis over all valid pairs of
\* all rings of all features; when all valid pairs are one point, it is that
\* point.
C5_CenterIsMidpoint ==
    (Returned /\ ValidPairs(cbArg) # {}) =>
        /\ cbRet.kind = "view"
        /\ 2 * cbRet.latitude = SetMin(Lats(cbArg)) + SetMax(Lats(cbArg))
        /\ 2 * cbRet.longitude = SetMin(Lngs(cbArg)) + SetMax(Lngs(cbArg))
        /\ \A e \in ValidPairs(cbArg) :
              ValidPairs(cbArg) = {e} =>
                 cbRet.longitude = e.elems[1].n /\ cbRet.latitude = e.elems[2].n

C5_Witness ==
    /\ Returned /\ Len(cbArg) = 2
    /\ \A i \in 1..2 : ValidPairs(<<cbArg[i]>>) # {}
    /\ Span(Lats(cbArg)) > 0 /\ Span(Lngs(cbArg)) > 0
    /\ 2 * cbRet.latitude = SetMin(Lats(cbArg)) + SetMax(Lats(cbArg))
    /\ cbRet.latitude # SetMin(Lats(cbArg))

\* C6: a pair contributes only if both components are finite numbers with
\* longitude in [-180, 180] and latitude in [-90, 90], bounds included: the
\* result on an input equals the result on the input with every invalid pair
\* removed, and a valid pair alone (also one on the bounds) is the center.
C6_InvalidPairsIgnored ==
    Called =>
        /\ cbRet = calculateBounds(RemoveInvalid(cbArg))
        /\ \A e \in ValidPairs(cbArg) :
              calculateBounds(Single(e)) = View(e.elems[1].n, e.elems[2].n, 14 * Unit)

C6_Witness ==
    /\ Returned /\ cbRet.kind = "view"
    /\ ValidPairs(cbArg) # {}
    /\ RemoveInvalid(cbArg) # cbArg
    /\ \E e \in EntriesOf(cbArg) :
          /\ Len(e.elems) = 2 /\ FiniteNumber(e.elems[1]) /\ FiniteNumber(e.elems[2])
          /\ e.elems[2].n > 90 * Unit
          /\ e.elems[1].n < SetMin(Lngs(cbArg))

-----------------------------------------------------------------------------
(* calculateBounds called in the states of the Dashboard *)

\* How often the history counts calls on one argument
MaxRepeat == 2

CallInputs == { <<>>, <<Plano, Frisco>>, <<OffMap, Bare>> }

AllFilesOk ==
    [sample_data   |-> CsvOk(<<TableRow("Plano", 87), TableRow("Frisco", 92)>>),
     top_numbers   |-> CsvOk(<<TopRow(12, 340, 55), TopRow(1, 2, 3)>>),
     sample_data_2 |-> CsvOk(<<SummaryRow(Num(40 * Unit), Num(25 * Unit), Num(0),
                                          Num(-3 * Unit), Percent(85), Percent(100),
                                          Str("n/a"), Undefined)>>),
     geojson       |-> GeoOk(<<Allen, Plano>>)]

InitCalls ==
    /\ InitialState
    /\ files \in {NoFiles, AllFilesOk}
    /\ pending = Loaders
    /\ cbArg = <<>>
    /\ cbRet = NotCalled
    /\ calls = {}

\* A call of calculateBounds from outside the fetch handler
DirectCall(features) ==
    /\ CallsOn(features) < MaxRepeat
    /\ CalculateBoundsOn(features)

NextCalls ==
    \/ Next
    \/ \E features \in CallInputs : DirectCall(features)

SpecCalls == InitCalls /\ [][NextCalls]_vars

-----------------------------------------------------------------------------
(* Claims about the Dashboard, checked under Spec *)

ZoomLevels == { z * Unit : z \in 7..14 }

\* C8 as stated: in every reachable state (initial, after any load
\* completion, after any map move or click) the zoom held in mapView is one
\* of 7..14.
C8_ZoomAlwaysOnLadder == mapView.zoom \in ZoomLevels

\* C8 as amended: in every reachable state whose mapView was not written by
\* a map move (the initial state, after any load completion, after any
\* click), the zoom held in mapView is one of 7..14; a map move stores
\* whatever zoom the move reports.
C8_ZoomOnLadderUnlessMoved ==
    /\ viewSource # "move" => mapView.zoom \in ZoomLevels
    /\ viewSource = "move" => mapView \in MoveViewStates

C8_Witness ==
    /\ viewSource = "bounds"
    /\ mapView.zoom = 7 * Unit
    /\ popupInfo # NullState

\* What the four completions leave behind, from the file contents alone
TableOf(file) == IF file.ok THEN file.data ELSE <<>>
TopOf(file)   == IF file.ok /\ Len(file.data) > 0 THEN Some(file.data[1])
                 ELSE NullState
PieOf(file)   == IF file.ok /\ Len(file.data) > 0 THEN Some(PieDataOf(file.data[1]))
                 ELSE NullState
GeoProcessed(file) ==
    /\ file.kind = "ok"
    /\ calculateBounds(FilterEdited(file.features)).kind # "throw"
GeoOf(file)   == IF GeoProcessed(file)
                 THEN Some([features |-> FilterEdited(file.features)])
                 ELSE NullState
ViewOf(file)  == IF GeoProcessed(file)
                    /\ calculateBounds(FilterEdited(file.features)).kind = "view"
                 THEN calculateBounds(FilterEdited(file.features))
                 ELSE InitialMapView

Settles(name) == name \in pending /\ name \notin pending'

\* C9: the four loads are independent: each completion writes only the slots
\* of its own loader (sample_data: tableData; top_numbers: topNumbersData;
\* sample_data_2: pieData; geojson: geoJsonData and mapView), and for fixed
\* file contents and no user events the state after all four completions is
\* the same whatever the order of completion.
C9_LoadsIndependent ==
    [][ /\ Settles("sample_data") =>
              UNCHANGED <<pieData, topNumbersData, geoJsonData, mapView, popupInfo>>
        /\ Settles("top_numbers") =>
              UNCHANGED <<tableData, pieData, geoJsonData, mapView, popupInfo>>
        /\ Settles("sample_data_2") =>
              UNCHANGED <<tableData, topNumbersData, geoJsonData, mapView, popupInfo>>
        /\ Settles("geojson") =>
              UNCHANGED <<tableData, pieData, topNumbersData, popupInfo>>
        /\ files' = files
        /\ (pending' = {} /\ viewSource' # "move") =>
              /\ tableData' = TableOf(files.sample_data)
              /\ topNumbersData' = TopOf(files.top_numbers)
              /\ pieData' = PieOf(files.sample_data_2)
              /\ geoJsonData' = GeoOf(files.geojson)
              /\ mapView' = ViewOf(files.geojson) ]_vars

C9_Witness ==
    /\ pending = {}
    /\ viewSource = "bounds"
    /\ tableData # <<>> /\ topNumbersData # NullState /\ pieData # NullState
    /\ geoJsonData # NullState /\ Len(geoJsonData[1].features) = 2
    /\ mapView # InitialMapView

\* The GeoJSON loads that fail: the fetch rejects, the body is not JSON, or
\* processing throws (no features array, or a ring or coordinate entry of a
\* feature with last_edited that is not an array)
GeoLoadFails(file) ==
    \/ file.kind # "ok"
    \/ FilterEdited(file.features) # <<>> /\ ~WellFormed(FilterEdited(file.features))

\* C10: a failed load leaves its view state at the initial value and nothing
\* else changes: when the GeoJSON load fails, geoJsonData stays null and
\* mapView stays the fixed default unless the user moves the map; when a CSV
\* load does not complete, tableData stays empty and pieData and
\* topNumbersData stay null; no request is issued again.
C10_FailedLoadLeavesInitial ==
    [][ /\ GeoLoadFails(files.geojson) =>
              /\ geoJsonData' = NullState
              /\ viewSource' # "move" => mapView' = InitialMapView
        /\ ~files.sample_data.ok => tableData' = <<>>
        /\ ~files.sample_data_2.ok => pieData' = NullState
        /\ ~files.top_numbers.ok => topNumbersData' = NullState
        /\ \A name \in Loaders :
              (Settles(name) /\ (IF name = "geojson" THEN GeoLoadFails(files.geojson)
                                 ELSE ~files[name].ok))
                 => dashboardState' = dashboardState
        /\ pending' \subseteq pending ]_vars

C10_Witness ==
    /\ pending = {}
    /\ files.geojson = GeoOk(<<Plano, Point>>)
    /\ cbRet.kind = "throw"
    /\ geoJsonData = NullState /\ mapView = InitialMapView
    /\ ~files.sample_data.ok /\ tableData = <<>>
    /\ ~files.sample_data_2.ok /\ pieData = NullState
    /\ ~files.top_numbers.ok /\ topNumbersData = NullState
    /\ popupInfo = NullState /\ mapRef

-----------------------------------------------------------------------------
(* The GeoJSON load: what is kept and what it writes *)

\* The features of a collection that have properties with a truthy
\* last_edited, in the order of the collection
KeptFeatures(features) ==
    SelectSeq(features, LAMBDA f : f.properties.present
                                   /\ Truthy(f.properties.last_edited))

\* C11: only features with a truthy last_edited are used: whenever
\* geoJsonData is set, every feature in it has properties with a truthy
\* last_edited, and the sequence handed to calculateBounds is exactly that
\* filtered sequence, in the order of the file.
C11_OnlyEditedFeaturesUsed ==
    /\ geoJsonData # NullState =>
          /\ \A i \in 1..Len(geoJsonData[1].features) :
                /\ geoJsonData[1].features[i].properties.present
                /\ Truthy(geoJsonData[1].features[i].properties.last_edited)
          /\ geoJsonData[1].features = KeptFeatures(files.geojson.features)
          /\ cbArg = geoJsonData[1].features
    /\ Called => cbArg = KeptFeatures(files.geojson.features)

C11_Witness ==
    /\ files.geojson = GeoOk(<<Plano, Wylie, Frisco>>)
    /\ geoJsonData = Some([features |-> <<Plano, Frisco>>])
    /\ cbArg = <<Plano, Frisco>>
    /\ cbRet.kind = "view"

\* C12: geoJsonData becomes non-null only in the step in which the GeoJSON
\* load completes successfully; that step sets geoJsonData to the filtered
\* collection and sets mapView to calculateBounds of the filtered features
\* when that is not null; when it is null, which is when no feature passes
\* the filter, mapView is unchanged and geoJsonData is the empty collection.
C12_GeoJsonSetOnLoad ==
    [][ LET kept      == KeptFeatures(files.geojson.features)
            computed  == calculateBounds(kept)
            completes == /\ Settles("geojson")
                         /\ files.geojson.kind = "ok"
                         /\ computed.kind # "throw"
        IN  /\ (geoJsonData = NullState /\ geoJsonData' # NullState) => completes
            /\ completes =>
                  /\ geoJsonData' = Some([features |-> kept])
                  /\ computed.kind = "view" => mapView' = computed
                  /\ computed.kind = "null" => mapView' = mapView
                  /\ computed.kind = "null" <=> kept = <<>> ]_vars

C12_Witness ==
    /\ files.geojson = GeoOk(<<Wylie, Sachse, Ghost>>)
    /\ "geojson" \notin pending
    /\ cbRet = NullResult
    /\ geoJsonData = Some([features |-> <<>>])
    /\ viewSource = "move"
    /\ mapView = View(0, 0, 0)

-----------------------------------------------------------------------------
(* The popup *)

\* What a click at lngLat on a feature shows
PopupFor(lngLat, feature) ==
    Some([longitude  |-> lngLat.lng,
          latitude   |-> lngLat.lat,
          city       |-> IF Truthy(feature.properties.CITY_NM)
                         THEN feature.properties.CITY_NM
                         ELSE Str("Unknown City"),
          population |-> IF Truthy(feature.properties.POP2022)
                         THEN feature.properties.POP2022
                         ELSE Str("N/A")])

\* A step in which a popup event took effect or was recorded
PopupStep == lastPopupEvent' # lastPopupEvent \/ popupInfo' # popupInfo

\* C13: the popup is a small state machine: popupInfo is null at first; a map
\* click on a 'coverage-areas' feature sets it to the click's lng/lat with
\* city = CITY_NM or 'Unknown City' and population = POP2022 or 'N/A'; a map
\* click on no feature, closing the popup, or a click on the bare container
\* sets it to null; a map click while the map ref is not available leaves it
\* unchanged; so popupInfo is non-null only if the latest popup event was a
\* click on a feature; none of these events changes mapView, geoJsonData,
\* tableData, pieData or topNumbersData.
C13_PopupStateMachine ==
    /\ popupInfo = NullState
    /\ [][ /\ popupInfo' # NullState => lastPopupEvent' = "feature"
           /\ PopupStep =>
                /\ UNCHANGED <<mapView, geoJsonData, tableData, pieData,
                               topNumbersData>>
                /\ (lastPopupEvent' = "feature" /\ mapRef) =>
                      \E lngLat \in ClickLngLats :
                         \E hit \in 1..Len(RenderedFeatures) :
                            popupInfo' = PopupFor(lngLat, RenderedFeatures[hit])
                /\ (lastPopupEvent' = "miss" /\ mapRef) => popupInfo' = NullState
                /\ (lastPopupEvent' \in {"feature", "miss"} /\ ~mapRef) =>
                      popupInfo' = popupInfo
                /\ lastPopupEvent' \in {"container", "close"} =>
                      popupInfo' = NullState ]_vars

C13_Witness ==
    /\ files.geojson = GeoOk(<<Plano, Wylie, Frisco>>)
    /\ lastPopupEvent = "feature"
    /\ popupInfo = Some([longitude  |-> Deg(-96, -750),
                         latitude   |-> Deg(33, 50),
                         city       |-> Str("Frisco"),
                         population |-> Str("N/A")])

-----------------------------------------------------------------------------
(* The viewport *)

\* C16: in every reachable state the viewport handed to the Map (its
\* longitude, latitude and zoom props) equals the values of mapView, also
\* when a computed or user-moved value is 0.
C16_PropsEqualMapView ==
    /\ MapProps.longitude = mapView.longitude
    /\ MapProps.latitude = mapView.latitude
    /\ MapProps.zoom = mapView.zoom

\* The GeoJSON load as the claims describe it
LoadedView ==
    calculateBounds(KeptFeatures(files.geojson.features))
LoadSetsView ==
    /\ Settles("geojson")
    /\ files.geojson.kind = "ok"
    /\ LoadedView.kind = "view"

\* C17: mapView is last-writer-wins between the user's moves and the GeoJSON
\* load: a move replaces mapView with the view state of the event; a GeoJSON
\* completion whose computed view is not null replaces mapView even if the
\* user has moved the map before; the GeoJSON completion happens once, and
\* after it mapView changes only through moves.
C17_LastWriterWins ==
    [][ /\ mapView' # mapView =>
              \/ viewSource' = "move" /\ mapView' \in MoveViewStates
              \/ LoadSetsView /\ viewSource' = "bounds"
        /\ LoadSetsView => mapView' = LoadedView
        /\ "geojson" \notin pending =>
              /\ "geojson" \notin pending'
              /\ mapView' # mapView => viewSource' = "move" ]_vars

C17_Witness ==
    /\ overwroteMove
    /\ "geojson" \notin pending
    /\ viewSource = "bounds"
    /\ mapView = cbRet
    /\ mapView \notin MoveViewStates

-----------------------------------------------------------------------------
(* The summary callback on its own *)

\* What a cell of the first summary row can hold after dynamicTyping
CellPool ==
    { Num(0), Num(-3 * Unit), Percent(85), Num(Unit),
      Str("n/a"), StrNum("85%", 85 * Unit), StrWhole("+5", 5 * Unit), StrInfinity,
      Bool(TRUE), Bool(FALSE), Null, Undefined }

\* A first row whose quality cells, or whose completeness cells, are drawn
RowWith(half, cells) ==
    IF half = "quality"
    THEN SummaryRow(cells[1], cells[2], cells[3], cells[4],
                    Percent(85), Percent(100), Str("n/a"), Undefined)
    ELSE SummaryRow(Num(40 * Unit), Num(25 * Unit), Num(0), Num(-3 * Unit),
                    cells[1], cells[2], cells[3], cells[4])

LaterRow == SummaryRow(Num(Unit), Num(Unit), Num(Unit), Num(Unit),
                       Percent(10), Percent(10), Percent(10), Percent(10))

\* Only the summary request is out; its file is empty or has a drawn first row
InitPie ==
    /\ InitialState
    /\ \/ files = [NoFiles EXCEPT !.sample_data_2 = CsvOk(<<>>)]
       \/ \E half \in {"quality", "completeness"} :
             \E cells \in [1..4 -> CellPool] :
                files = [NoFiles EXCEPT !.sample_data_2 =
                            CsvOk(<<RowWith(half, cells), LaterRow>>)]
    /\ pending = {"sample_data_2"}
    /\ cbArg = <<>>
    /\ cbRet = NotCalled
    /\ calls = {}

NextPie == CompleteSampleData2

SpecPie == InitPie /\ [][NextPie]_vars

-----------------------------------------------------------------------------
(* The pie data, stated on the first row *)

PieLoaded == pieData # NullState
FirstRow  == files.sample_data_2.data[1]

IsPositiveNumber(v) ==
    v.t = "number" /\ ((v.k = "fin" /\ v.n > 0) \/ (v.k = "inf" /\ v.n = 1))

\* Values that JavaScript's > 0 accepts: a positive number, true, or a string
\* that spells a positive number as a whole
ConvertsToPositive(v) ==
    \/ IsPositiveNumber(v)
    \/ v = Bool(TRUE)
    \/ v.t = "string" /\ ((v.k = "whole" /\ v.n > 0) \/ v.k = "infinity")

\* The quality categories of the row that pass Test, in the fixed order
QualityWhere(row, Test(_)) ==
    LET kept == SelectSeq(<<1, 2, 3, 4>>, LAMBDA i : Test(row[QualityNames[i]]))
    IN  [j \in 1..Len(kept) |-> [name  |-> QualityNames[kept[j]],
                                 value |-> row[QualityNames[kept[j]]]]]

InQuality(name) ==
    \E j \in 1..Len(pieData[1].quality) : pieData[1].quality[j].name = name

\* C14 as stated: with at least one summary row, pieData.quality holds
\* exactly the categories among 'Very Good', 'Good', 'Normal', 'Poor' whose
\* first-row value is a number greater than 0, in that order, each at most
\* once; a category whose value is 0, negative, missing or not a number is
\* absent.
C14_QualityOnlyPositiveNumbers ==
    PieLoaded => pieData[1].quality = QualityWhere(FirstRow, IsPositiveNumber)

\* C14, the part that holds: pieData.quality holds exactly the categories
\* whose first-row value JavaScript's > 0 accepts, in the fixed order, each
\* at most once; a category whose value is 0, negative, null, undefined,
\* false or a string that spells no number is absent, while true and a
\* string that spells a positive number are kept.
C14_QualityPositiveAfterConversion ==
    PieLoaded =>
       /\ pieData[1].quality = QualityWhere(FirstRow, ConvertsToPositive)
       /\ \A i \in 1..4 :
             LET v == FirstRow[QualityNames[i]]
             IN  /\ (\/ (v.t = "number" /\ v.k = "fin" /\ v.n <= 0)
                     \/ v \in {Null, Undefined, Bool(FALSE)}
                     \/ (v.t = "string" /\ v.k \in {"", "prefix"}))
                       => ~InQuality(QualityNames[i])
                 /\ (v = Bool(TRUE) \/ v = StrWhole("+5", 5 * Unit))
                       => InQuality(QualityNames[i])

C14_Witness ==
    /\ PieLoaded
    /\ FirstRow["Very Good"] = Bool(TRUE)
    /\ FirstRow["Good"] = Num(0)
    /\ FirstRow["Normal"] = Str("n/a")
    /\ FirstRow["Poor"] = Percent(85)
    /\ pieData[1].quality = << [name |-> "Very Good", value |-> Bool(TRUE)],
                               [name |-> "Poor", value |-> Percent(85)] >>

\* A value that parseFloat turns into a number, and that number
Parses(v) ==
    \/ v.t = "number" /\ v.k # "nan"
    \/ v.t = "string" /\ v.k \in {"prefix", "whole", "infinity"}
Parsed(v) ==
    IF v.t = "number" THEN v
    ELSE IF v.k = "infinity" THEN PosInf ELSE Num(v.n)

ParsedMetrics(row) ==
    SelectSeq(<<1, 2, 3, 4>>, LAMBDA i : Parses(row[completenessMetrics[i]]))

\* One chart per parsed metric, in the fixed order, each with the entries
\* 'Yes' and 'No' in that order
ChartsFollowMetrics ==
    LET charts == pieData[1].completenessCharts
        parsed == ParsedMetrics(FirstRow)
    IN  /\ Len(charts) = Len(parsed)
        /\ \A j \in 1..Len(charts) :
              /\ charts[j].title = completenessMetrics[parsed[j]]
              /\ Len(charts[j].data) = 2
              /\ charts[j].data[1].name = "Yes"
              /\ charts[j].data[2].name = "No"

\* C15 as stated: pieData.completenessCharts has one chart per metric whose
\* first-row value parses as a number, in the fixed metric order, and none
\* for the others; each chart has 'Yes' = p * 100 and 'No' = (1 - p) * 100,
\* so Yes + No = 100 for every chart.
C15_YesPlusNoIsHundred ==
    PieLoaded =>
       /\ ChartsFollowMetrics
       /\ \A j \in 1..Len(pieData[1].completenessCharts) :
             LET data == pieData[1].completenessCharts[j].data
             IN  /\ data[1].value.k = "fin" /\ data[2].value.k = "fin"
                 /\ data[1].value.n + data[2].value.n = 100 * Unit

\* C15, the part that holds: one chart per parsed metric as above; for a
\* finite p the chart has 'Yes' = p * 100 and 'No' = (1 - p) * 100 and
\* Yes + No = 100; a value that parses to Infinity gives 'Yes' = Infinity
\* and 'No' = -Infinity, whose sum is not 100.
C15_ChartsPerParsedMetric ==
    PieLoaded =>
       /\ ChartsFollowMetrics
       /\ \A j \in 1..Len(pieData[1].completenessCharts) :
             LET data == pieData[1].completenessCharts[j].data
                 p    == Parsed(FirstRow[completenessMetrics[ParsedMetrics(FirstRow)[j]]])
             IN  IF p.k = "fin"
                 THEN /\ data[1].value = Num(p.n * 100)
                      /\ data[2].value = Num((Unit - p.n) * 100)
                      /\ data[1].value.n + data[2].value.n = 100 * Unit
                 ELSE /\ data[1].value = p
                      /\ data[2].value.k = "inf" /\ data[2].value.n = -p.n

C15_Witness ==
    /\ PieLoaded
    /\ FirstRow["Descriptions"] = Percent(85)
    /\ FirstRow["Locations"] = Str("n/a")
    /\ FirstRow["Contacts"] = StrNum("85%", 85 * Unit)
    /\ FirstRow["Links to Extra Documents"] = Null
    /\ Len(pieData[1].completenessCharts) = 2
    /\ pieData[1].completenessCharts[1] =
          [title |-> "Descriptions",
           data  |-> << [name |-> "Yes", value |-> Num(85 * Unit)],
                        [name |-> "No", value |-> Num(15 * Unit)] >>]
    /\ pieData[1].completenessCharts[2].title = "Contacts"

-----------------------------------------------------------------------------
(* Reordering and regrouping the input of calculateBounds *)

SwapAt(seq, i) == [seq EXCEPT ![i] = seq[i + 1], ![i + 1] = seq[i]]
RemoveAt(seq, i) == SubSeq(seq, 1, i - 1) \o SubSeq(seq, i + 1, Len(seq))

HasRings(feature) == feature.geometry.kind = "coords"
RingsOf(feature)  == feature.geometry.coordinates
WithRings(feature, rings) == [feature EXCEPT !.geometry.coordinates = rings]

\* Two neighbouring features exchanged
FeaturesSwapped(features) ==
    { SwapAt(features, i) : i \in 1..(Len(features) - 1) }

\* Two neighbouring rings of one feature exchanged
RingsSwapped(features) ==
    UNION { { [features EXCEPT ![i] = WithRings(@, SwapAt(RingsOf(@), r))] :
                 r \in 1..(Len(RingsOf(features[i])) - 1) } :
            i \in { k \in 1..Len(features) : HasRings(features[k]) } }

\* Two neighbouring entries of one ring exchanged
PairsSwapped(features) ==
    UNION { UNION { { [features EXCEPT ![i] =
                         WithRings(@, [RingsOf(@) EXCEPT ![r].items = SwapAt(@, c)])] :
                         c \in 1..(Len(RingsOf(features[i])[r].items) - 1) } :
                    r \in { q \in 1..Len(RingsOf(features[i])) :
                               RingsOf(features[i])[q].kind = "array" } } :
            i \in { k \in 1..Len(features) : HasRings(features[k]) } }

\* One ring taken out of a feature and added to another
RingMoved(features) ==
    UNION { UNION { { [features EXCEPT
                         ![i] = WithRings(@, RemoveAt(RingsOf(@), r)),
                         ![j] = WithRings(@, Append(RingsOf(@), RingsOf(features[i])[r]))] :
                         r \in 1..Len(RingsOf(features[i])) } :
                    j \in { k \in 1..Len(features) : k # i /\ HasRings(features[k]) } } :
            i \in { k \in 1..Len(features) : HasRings(features[k]) } }

\* One step of reordering or regrouping; the inputs are closed under these
\* steps, and every permutation is a chain of exchanges of neighbours
Regrouped(features) ==
    FeaturesSwapped(features) \cup RingsSwapped(features)
    \cup PairsSwapped(features) \cup RingMoved(features)

\* C18: the result of calculateBounds does not depend on order or grouping:
\* permuting the features, the rings within a feature or the coordinate
\* pairs within a ring, or moving a ring from one feature to another, gives
\* the same result.
C18_OrderAndGroupingIrrelevant ==
    Called => \A other \in Regrouped(cbArg) : calculateBounds(other) = cbRet

C18_Witness ==
    /\ Called
    /\ cbRet.kind = "view"
    /\ Len(cbArg) = 2
    /\ HasRings(cbArg[1]) /\ HasRings(cbArg[2])
    /\ Cardinality(ValidPairs(cbArg)) >= 2
    /\ FeaturesSwapped(cbArg) # {cbArg}
    /\ RingMoved(cbArg) # {}
    /\ PairsSwapped(cbArg) \ {cbArg} # {}

====
